---- MODULE Spec2Model ----
(***************************************************************************)
(* A model of src/main.py: the three TSP solvers twice_around_tree,        *)
(* christofides and branch_and_bound run on one distance matrix.           *)
(*                                                                         *)
(* Distances are integers (the program uses floats; rounding error is not  *)
(* modelled).  The networkx calls are modelled by their contract: any      *)
(* minimum spanning tree, any minimum-weight perfect matching and any      *)
(* Eulerian circuit may be the one returned.  The wall clock is a flag     *)
(* that turns from "within budget" to "budget exceeded" at any moment of   *)
(* a branch_and_bound call.                                                *)
(***************************************************************************)
EXTENDS Integers, Sequences, FiniteSets, TLC

\* ------------------------------------------------------------------ bounds
\* Largest number of cities of a general symmetric matrix.
MaxN == 4
\* Largest entry of a general symmetric matrix.
MaxDist == 2
\* Largest number of collinear points of a Euclidean instance.
MaxPts == 6
\* Largest x coordinate of a collinear point.
MaxCoord == 1

VARIABLES
    N,          \* len(dist_matrix)
    dist_matrix,\* [<<i, j>> -> distance]
    pc,         \* where the running call is
    alg,        \* which solver was called
    late,       \* time.time() - start_time > time_limit
    pq,         \* branch_and_bound: the heap, as the set of its tuples
    best_cost,  \* branch_and_bound: incumbent cost (Inf for float('inf'))
    best_tour,  \* branch_and_bound: incumbent tour or None
    cur,        \* branch_and_bound: the tuple popped at line 191
    next_node,  \* branch_and_bound: the for loop's variable (line 202)
    mst,        \* heuristics: the spanning tree's edges
    multigraph, \* heuristics: eulerian_multigraph, edge -> multiplicity
    result,     \* what the call returned
    raised,     \* the exception that left the call, "" if none
    hist        \* history: counts of what the call has done so far

vars == <<N, dist_matrix, pc, alg, late, pq, best_cost, best_tour, cur,
          next_node, mst, multigraph, result, raised, hist>>

\* ------------------------------------------------------- Python values
None == [t |-> "None"]
Num(x) == [t |-> "num", v |-> x]
Str(s) == [t |-> "str", v |-> s]
List(s) == [t |-> "list", v |-> s]

\* float('inf'): larger than the cost of any tour or bound of the model.
Inf == (MaxN + MaxPts + 1) * (MaxDist + MaxCoord + 1)

Nodes(n) == 0 .. (n - 1)

Range(s) == {s[i] : i \in 1 .. Len(s)}

Min(a, b) == IF a < b THEN a ELSE b
Max(a, b) == IF a < b THEN b ELSE a

\* ------------------------------------------------------ distance matrix
\* The unordered pairs i < j of a vertex set.
Pairs(V) == {p \in V \X V : p[1] < p[2]}

\* A symmetric matrix with a zero diagonal from its upper triangle w.
Symmetric(n, w) ==
    [p \in Nodes(n) \X Nodes(n) |->
        IF p[1] = p[2] THEN 0 ELSE w[<<Min(p[1], p[2]), Max(p[1], p[2])>>]]

\* build_distance_matrix on the points (coords[i], 0): math.dist of two
\* points of one horizontal line is the absolute difference of their x.
build_distance_matrix(n, coords) ==
    [p \in Nodes(n) \X Nodes(n) |->
        IF p[1] = p[2] THEN 0
        ELSE IF coords[p[1]] < coords[p[2]] THEN coords[p[2]] - coords[p[1]]
        ELSE coords[p[1]] - coords[p[2]]]

\* ------------------------------------------------------- spanning trees
\* The vertices a set of edges touches.
Touched(E) == UNION {{e[1], e[2]} : e \in E}

\* Every tree of k more edges grown from the trees Ts, all holding root.
RECURSIVE GrowTrees(_, _, _, _)
GrowTrees(V, root, Ts, k) ==
    IF k = 0 THEN Ts
    ELSE GrowTrees(V, root,
            UNION {LET inT == {root} \cup Touched(T)
                   IN {T \cup {e} : e \in {p \in Pairs(V) : (p[1] \in inT) # (p[2] \in inT)}}
                   : T \in Ts},
            k - 1)

\* The spanning trees of the complete graph on V, as sets of edges (the
\* edgeless tree when V has at most one vertex).
SpanningTreesOf(V) ==
    IF V = {} THEN {{}}
    ELSE GrowTrees(V, CHOOSE v \in V : TRUE, {{}}, Cardinality(V) - 1)

\* Largest vertex count of any instance of the model.
MaxV == Max(MaxN, MaxPts)

\* SpanningTreesOf, tabulated once.
TreesOf == [V \in SUBSET Nodes(MaxV) |-> SpanningTreesOf(V)]

RECURSIVE TreeWeight(_, _)
TreeWeight(d, T) ==
    IF T = {} THEN 0
    ELSE LET e == CHOOSE x \in T : TRUE IN d[e] + TreeWeight(d, T \ {e})

\* nx.minimum_spanning_tree of the complete graph on V: any spanning tree
\* of least total weight.
MinWeight(d, Ts) ==
    LET ws == {TreeWeight(d, T) : T \in Ts}
    IN CHOOSE w \in ws : \A u \in ws : w <= u

\* Mutant: a spanning tree that need not be of least weight.
any_spanning_tree(d, V) == TreesOf[V]

minimum_spanning_tree(d, V) ==
    LET least == MinWeight(d, TreesOf[V])
    IN {T \in TreesOf[V] : TreeWeight(d, T) = least}

\* ------------------------------------------------------ branch_and_bound
\* Python's < on two lists of integers.
ListLess(s, t) ==
    \E k \in 1 .. Len(t) :
        /\ k <= Len(s) + 1
        /\ \A i \in 1 .. (k - 1) : s[i] = t[i]
        /\ (k = Len(s) + 1 \/ s[k] < t[k])

\* Python's < on two heap tuples (bound, cost_so_far, path, visited): the
\* first differing component decides; sets compare by proper inclusion.
TupleLess(a, b) ==
    \/ a.bound < b.bound
    \/ a.bound = b.bound /\ a.cost < b.cost
    \/ a.bound = b.bound /\ a.cost = b.cost /\ ListLess(a.path, b.path)
    \/ /\ a.bound = b.bound /\ a.cost = b.cost /\ a.path = b.path
       /\ a.visited \subseteq b.visited /\ a.visited # b.visited

\* heappop: the least tuple of the heap.
heappop(h) == CHOOSE a \in h : \A b \in h \ {a} : TupleLess(a, b)

root == [bound |-> 0, cost |-> 0, path |-> <<0>>, visited |-> {0}]

\* Mutant: twice the tree's weight, as if the tree were walked both ways.
compute_bound_doubled(d, n, visited, current_node) ==
    LET unvisited == {v \in Nodes(n) : v \notin visited}
    IN 2 * MinWeight(d, TreesOf[unvisited \cup {current_node}])

\* compute_bound after its time check: the weight of a minimum spanning tree
\* of the unvisited vertices and current_node (the graph holds only the
\* vertices its edges name: a single vertex gives the empty graph, size 0).
compute_bound(d, n, visited, current_node) ==
    LET unvisited == {v \in Nodes(n) : v \notin visited}
    IN MinWeight(d, TreesOf[unvisited \cup {current_node}])

\* Mutant: > for >=.
PrunedStrictly(bound, best) == bound > best

\* The pruning test of line 192.
Pruned(bound, best) == bound >= best

\* The leaf test of line 196.
IsLeaf(n, node) == Cardinality(node.visited) = n

\* total_cost of line 197.
total_cost(d, node) == node.cost + d[<<node.path[Len(node.path)], 0>>]

\* Mutant: the child keeps its parent's visited set.
ChildStaleVisited(d, n, node, v) ==
    LET new_cost == node.cost + d[<<node.path[Len(node.path)], v>>]
    IN [bound |-> new_cost + compute_bound(d, n, node.visited \cup {v}, v),
        cost |-> new_cost,
        path |-> Append(node.path, v),
        visited |-> node.visited]

\* The child tuple of lines 204-207.
Child(d, n, node, v) ==
    LET new_cost == node.cost + d[<<node.path[Len(node.path)], v>>]
        new_visited == node.visited \cup {v}
    IN [bound |-> new_cost + compute_bound(d, n, new_visited, v),
        cost |-> new_cost,
        path |-> Append(node.path, v),
        visited |-> new_visited]

\* The push test of line 208.
Pushed(new_bound, best) == new_bound < best

\* The for loop's next value not in visited, from v on; n when there is none.
NextUnvisited(n, visited, v) ==
    LET rest == {u \in Nodes(n) : u >= v /\ u \notin visited}
    IN IF rest = {} THEN n ELSE CHOOSE u \in rest : \A x \in rest : u <= x

\* Mutant: the incumbent is returned on timeout.
OnTimeoutIncumbent(tour, cost) == [tour |-> tour, cost |-> Num(cost)]

\* What the except clause returns (line 211).
OnTimeout(tour, cost) == [tour |-> None, cost |-> Str("NA")]

\* What line 213 returns.
OnExhausted(tour, cost) == [tour |-> tour, cost |-> Num(cost)]

NoHist == [pops |-> 0, pushes |-> 0, bounds |-> 0, checks |-> 0,
           lateOps |-> 0, lastPop |-> "none"]

NoResult == [tour |-> None, cost |-> None]

\* The state before any solver is called on the matrix.
Idle ==
    /\ pc = "idle" /\ alg = "" /\ late = FALSE /\ pq = {}
    /\ best_cost = Inf /\ best_tour = None /\ cur = root /\ next_node = 0
    /\ mst = {} /\ multigraph = <<>> /\ result = NoResult /\ raised = ""
    /\ hist = NoHist

\* Any symmetric matrix of up to MaxN cities with entries up to MaxDist.
Init ==
    /\ \E n \in 0 .. MaxN : \E w \in [Pairs(Nodes(n)) -> 0 .. MaxDist] :
          N = n /\ dist_matrix = Symmetric(n, w)
    /\ Idle

Running == pc \in {"loop", "pop", "expand", "bound"}

\* Lines 161-184.
CallBranchAndBound ==
    /\ pc = "idle"
    /\ pc' = "loop" /\ alg' = "branch_and_bound"
    /\ pq' = {root} /\ best_cost' = Inf /\ best_tour' = None
    /\ UNCHANGED <<N, dist_matrix, late, cur, next_node, mst, multigraph,
                   result, raised, hist>>

\* The wall clock passes the budget.
Tick ==
    /\ Running /\ ~late
    /\ late' = TRUE
    /\ UNCHANGED <<N, dist_matrix, pc, alg, pq, best_cost, best_tour, cur,
                   next_node, mst, multigraph, result, raised, hist>>

\* Lines 187-189 and, when the loop ends, 213.
LoopCheck ==
    /\ pc = "loop"
    /\ IF pq = {}
       THEN /\ pc' = "done"
            /\ result' = OnExhausted(best_tour, best_cost)
            /\ UNCHANGED hist
       ELSE /\ hist' = [hist EXCEPT !.checks = @ + 1]
            /\ IF late
               THEN pc' = "timeout" /\ result' = OnTimeout(best_tour, best_cost)
               ELSE pc' = "pop" /\ UNCHANGED result
    /\ UNCHANGED <<N, dist_matrix, alg, late, pq, best_cost, best_tour, cur,
                   next_node, mst, multigraph, raised>>

\* Lines 191-202: pop, then prune, close the tour or start the for loop.
Pop ==
    /\ pc = "pop"
    /\ LET node == heappop(pq)
           h == [hist EXCEPT !.pops = @ + 1,
                             !.lateOps = IF late THEN @ + 1 ELSE @]
       IN /\ pq' = pq \ {node}
          /\ cur' = node
          /\ IF Pruned(node.bound, best_cost)
             THEN /\ pc' = "loop"
                  /\ hist' = [h EXCEPT !.lastPop = "pruned"]
                  /\ UNCHANGED <<best_cost, best_tour, next_node>>
             ELSE IF IsLeaf(N, node)
             THEN /\ pc' = "loop"
                  /\ hist' = [h EXCEPT !.lastPop = "closed"]
                  /\ IF total_cost(dist_matrix, node) < best_cost
                     THEN /\ best_cost' = total_cost(dist_matrix, node)
                          /\ best_tour' = List(Append(node.path, 0))
                     ELSE UNCHANGED <<best_cost, best_tour>>
                  /\ UNCHANGED next_node
             ELSE /\ next_node' = NextUnvisited(N, node.visited, 0)
                  /\ pc' = IF next_node' < N THEN "expand" ELSE "loop"
                  /\ hist' = [h EXCEPT !.lastPop = "expanded"]
                  /\ UNCHANGED <<best_cost, best_tour>>
    /\ UNCHANGED <<N, dist_matrix, alg, late, mst, multigraph, result, raised>>

\* Mutant: compute_bound without its time check.
BoundUnchecked ==
    /\ pc = "expand"
    /\ pc' = "bound"
    /\ UNCHANGED <<N, dist_matrix, alg, late, pq, best_cost, best_tour, cur,
                   next_node, mst, multigraph, result, raised, hist>>

\* Lines 204-207 and 169-170: the time check that opens compute_bound.
BoundCheck ==
    /\ pc = "expand"
    /\ hist' = [hist EXCEPT !.checks = @ + 1]
    /\ IF late
       THEN pc' = "timeout" /\ result' = OnTimeout(best_tour, best_cost)
       ELSE pc' = "bound" /\ UNCHANGED result
    /\ UNCHANGED <<N, dist_matrix, alg, late, pq, best_cost, best_tour, cur,
                   next_node, mst, multigraph, raised>>

\* Lines 171-178 and 207-209: the bound, the push, the loop's next round.
Bound ==
    /\ pc = "bound"
    /\ LET child == Child(dist_matrix, N, cur, next_node)
           push == Pushed(child.bound, best_cost)
       IN /\ pq' = IF push THEN pq \cup {child} ELSE pq
          /\ hist' = [hist EXCEPT !.bounds = @ + 1,
                                  !.pushes = IF push THEN @ + 1 ELSE @,
                                  !.lateOps = IF late THEN @ + 1 ELSE @]
    /\ next_node' = NextUnvisited(N, cur.visited, next_node + 1)
    /\ pc' = IF next_node' < N THEN "expand" ELSE "loop"
    /\ UNCHANGED <<N, dist_matrix, alg, late, best_cost, best_tour, cur,
                   mst, multigraph, result, raised>>

BranchAndBound == CallBranchAndBound \/ Tick \/ LoopCheck \/ Pop \/ BoundCheck \/ Bound

\* ----------------------------------------------------------- heuristics
\* mst.degree(v).
Degree(T, v) == Cardinality({e \in T : e[1] = v \/ e[2] = v})

\* The perfect matchings of the complete graph on S, as sets of edges.
RECURSIVE PerfectMatchings(_)
PerfectMatchings(S) ==
    IF S = {} THEN {{}}
    ELSE LET u == CHOOSE x \in S : \A y \in S : x <= y
         IN UNION {{M \cup {<<u, v>>} : M \in PerfectMatchings(S \ {u, v})}
                   : v \in S \ {u}}

\* Mutant: a perfect matching that need not be of least weight.
any_perfect_matching(d, odd_vertices) == PerfectMatchings(odd_vertices)

\* nx.algorithms.matching.min_weight_matching of the complete graph on the
\* odd-degree vertices: any perfect matching of least total weight.
min_weight_matching(d, odd_vertices) ==
    LET Ms == PerfectMatchings(odd_vertices)
        least == MinWeight(d, Ms)
    IN {M \in Ms : TreeWeight(d, M) = least}

\* The multigraph with the edges of T, and those of M once more.
MultiGraph(n, T, M) ==
    [e \in Pairs(Nodes(n)) |->
        (IF e \in T THEN 1 ELSE 0) + (IF e \in M THEN 1 ELSE 0)]

Edge(u, v) == <<Min(u, v), Max(u, v)>>

\* Every walk from u that uses each remaining edge of mg once, as the list
\* of its edges (u, v) in the order walked.
RECURSIVE Trails(_, _)
Trails(mg, u) ==
    IF \A e \in DOMAIN mg : mg[e] = 0 THEN {<<>>}
    ELSE UNION {{<<<<u, v>>>> \o t :
                    t \in Trails([mg EXCEPT ![Edge(u, v)] = @ - 1], v)}
                : v \in {x \in Touched(DOMAIN mg) :
                            x # u /\ mg[Edge(u, x)] > 0}}

\* list(nx.eulerian_circuit(G)) for a connected G with even degrees: any
\* Eulerian circuit from any vertex (none to walk in an edgeless graph).
eulerian_circuit(n, mg) == UNION {Trails(mg, source) : source \in Nodes(n)}

\* Mutant: repeated vertices are kept.
RECURSIVE ShortcutKeepsRepeats(_, _)
ShortcutKeepsRepeats(euler_tour, visited) ==
    IF euler_tour = <<>> THEN visited
    ELSE ShortcutKeepsRepeats(Tail(euler_tour),
                              Append(visited, Head(euler_tour)[1]))

\* Lines 98-103: the first vertex of each edge, at its first occurrence.
RECURSIVE Shortcut(_, _)
Shortcut(euler_tour, visited) ==
    IF euler_tour = <<>> THEN visited
    ELSE LET u == Head(euler_tour)[1]
         IN Shortcut(Tail(euler_tour),
                     IF u \in Range(visited) THEN visited ELSE Append(visited, u))

\* Line 107: the sum of the distances between consecutive vertices.
RECURSIVE PathCost(_, _)
PathCost(d, t) ==
    IF Len(t) <= 1 THEN 0
    ELSE d[<<t[1], t[2]>>] + PathCost(d, Tail(t))

\* Lines 83-94: the MST and its doubling.
CallTwiceAroundTree ==
    /\ pc = "idle"
    /\ alg' = "twice_around_tree"
    /\ \E T \in minimum_spanning_tree(dist_matrix, Nodes(N)) :
          mst' = T /\ multigraph' = MultiGraph(N, T, T)
    /\ pc' = "euler"
    /\ UNCHANGED <<N, dist_matrix, late, pq, best_cost, best_tour, cur,
                   next_node, result, raised, hist>>

\* Lines 115-121: the MST.
CallChristofides ==
    /\ pc = "idle"
    /\ alg' = "christofides"
    /\ mst' \in minimum_spanning_tree(dist_matrix, Nodes(N))
    /\ pc' = "matching"
    /\ UNCHANGED <<N, dist_matrix, late, pq, best_cost, best_tour, cur,
                   next_node, multigraph, result, raised, hist>>

\* Lines 124-140: the matching of the odd-degree vertices, added to the MST.
Matching ==
    /\ pc = "matching"
    /\ LET odd_vertices == {v \in Nodes(N) : Degree(mst, v) % 2 = 1}
       IN \E M \in min_weight_matching(dist_matrix, odd_vertices) :
             multigraph' = MultiGraph(N, mst, M)
    /\ pc' = "euler"
    /\ UNCHANGED <<N, dist_matrix, alg, late, pq, best_cost, best_tour, cur,
                   next_node, mst, result, raised, hist>>

\* Lines 97-108 and 143-154: the circuit, the shortcut, the closing
\* visited[0] and the cost.  nx.eulerian_circuit tests is_eulerian first,
\* whose is_connected raises on the graph without vertices.  The call's
\* graphs are gone once it has returned or raised.
Euler ==
    /\ pc = "euler"
    /\ IF N = 0
       THEN /\ pc' = "raised" /\ raised' = "NetworkXPointlessConcept"
            /\ UNCHANGED result
       ELSE \E euler_tour \in eulerian_circuit(N, multigraph) :
               LET visited == Shortcut(euler_tour, <<>>)
               IN IF visited = <<>>
                  THEN /\ pc' = "raised" /\ raised' = "IndexError"
                       /\ UNCHANGED result
                  ELSE LET tour == Append(visited, visited[1])
                       IN /\ pc' = "returned"
                          /\ result' = [tour |-> List(tour),
                                        cost |-> Num(PathCost(dist_matrix, tour))]
                          /\ UNCHANGED raised
    /\ mst' = {} /\ multigraph' = <<>>
    /\ UNCHANGED <<N, dist_matrix, alg, late, pq, best_cost, best_tour, cur,
                   next_node, hist>>

Heuristics == CallTwiceAroundTree \/ CallChristofides \/ Matching \/ Euler

Next == BranchAndBound \/ Heuristics

Spec == Init /\ [][Next]_vars

\* d(i, k) <= d(i, j) + d(j, k) for all i, j, k.
TriangleInequality(n, d) ==
    \A i, j, k \in Nodes(n) : d[<<i, k>>] <= d[<<i, j>>] + d[<<j, k>>]

\* The matrices the program builds are Euclidean: a matrix of Init that
\* satisfies the triangle inequality, or build_distance_matrix of up to
\* MaxPts collinear points with integer coordinates up to MaxCoord, listed
\* from left to right (the heuristics below treat all vertices alike).
InitH ==
    /\ \/ \E n \in 0 .. MaxN : \E w \in [Pairs(Nodes(n)) -> 0 .. MaxDist] :
             /\ TriangleInequality(n, Symmetric(n, w))
             /\ N = n /\ dist_matrix = Symmetric(n, w)
       \/ \E n \in 0 .. MaxPts : \E coords \in [Nodes(n) -> 0 .. MaxCoord] :
             /\ \A i, j \in Nodes(n) : i < j => coords[i] <= coords[j]
             /\ N = n /\ dist_matrix = build_distance_matrix(n, coords)
    /\ Idle

NextH == Heuristics

\* The heuristics alone, on Euclidean instances.
SpecH == InitH /\ [][NextH]_vars

\* ------------------------------------------------------------- properties
\* The closed tours from vertex 0 that visit each of n >= 1 vertices once (a
\* closed tour costs the same from whichever of its vertices it is read).
ToursFromZero(n) ==
    {<<0>> \o p \o <<0>> :
        p \in {q \in [1 .. (n - 1) -> 1 .. (n - 1)] :
                  \A i, j \in 1 .. (n - 1) : i # j => q[i] # q[j]}}

HamiltonianTours == [n \in 1 .. MaxV |-> ToursFromZero(n)]

\* The least cost of a closed tour through all n vertices.
OptCost(d, n) ==
    LET cs == {PathCost(d, t) : t \in HamiltonianTours[n]}
    IN CHOOSE c \in cs : \A x \in cs : c <= x

\* t has n + 1 elements, ends where it starts, and its first n elements are
\* the vertices 0 .. n-1, each once.
IsTour(n, t) ==
    /\ Len(t) = n + 1
    /\ t[1] = t[n + 1]
    /\ {t[i] : i \in 1 .. n} = Nodes(n)

Returned(a) == alg = a /\ pc \in {"done", "returned"}

\* C1: when branch_and_bound ends on an empty frontier, on n >= 2 cities,
\* the cost it returns is the least cost of a closed tour through all the
\* cities, and the tour it returns is such a tour of that cost.
C1_ExhaustedIsOptimal ==
    (Returned("branch_and_bound") /\ N >= 2) =>
        /\ result.cost = Num(OptCost(dist_matrix, N))
        /\ result.tour.t = "list"
        /\ IsTour(N, result.tour.v)
        /\ PathCost(dist_matrix, result.tour.v) = OptCost(dist_matrix, N)

\* The square with sides 1 (its diagonals, not integers, rounded up to 2).
UnitSquare ==
    Symmetric(4, [e \in Pairs(Nodes(4)) |->
                    IF e \in {<<0, 2>>, <<1, 3>>} THEN 2 ELSE 1])

\* C1 witness: the exhaustive search of the square returned cost 4.
C1_Witness ==
    /\ Returned("branch_and_bound") /\ N = 4 /\ dist_matrix = UnitSquare
    /\ result.cost = Num(4) /\ hist.lastPop = "pruned"

\* C2: a call that a time check ended returns (None, "NA").
C2_TimeoutReturnsNA ==
    pc = "timeout" => result = [tour |-> None, cost |-> Str("NA")]

\* C2 witness: the call timed out with a complete tour already recorded.
C2_Witness == pc = "timeout" /\ best_tour # None /\ best_cost < Inf

\* C3: a tour returned by any of the three solvers on n cities has n + 1
\* elements, ends where it starts and begins with a permutation of 0..n-1.
C3_ReturnedTourIsTour ==
    (pc \in {"done", "returned", "timeout"} /\ result.tour # None) =>
        /\ result.tour.t = "list"
        /\ IsTour(N, result.tour.v)

\* C3 witness: christofides returned a tour of MaxN cities.
C3_Witness ==
    /\ Returned("christofides") /\ N = MaxN /\ result.tour # None
    /\ Len(result.tour.v) = MaxN + 1

\* C4 (as claimed): on 0 or 1 cities a heuristic returns a tour of cost 0.
C4_DegenerateHeuristic ==
    (alg \in {"twice_around_tree", "christofides"} /\ N <= 1
        /\ pc \in {"returned", "raised"}) =>
        (pc = "returned" /\ result.cost = Num(0))

\* C5 (as claimed): on 0 or 1 cities branch_and_bound, not timed out, pops
\* only the root, pushes no child and returns cost 0.
C5_DegenerateBranchAndBound ==
    (Returned("branch_and_bound") /\ N <= 1) =>
        (hist.pops = 1 /\ hist.pushes = 0 /\ result.cost = Num(0))

\* C6: under the triangle inequality, on n >= 2 cities, the cost
\* twice_around_tree returns is at most twice the least tour cost.
C6_TwiceAroundTreeWithin2 ==
    (Returned("twice_around_tree") /\ N >= 2
        /\ TriangleInequality(N, dist_matrix)) =>
        result.cost.v <= 2 * OptCost(dist_matrix, N)

\* C6 witness: twice_around_tree returned a tour that is not optimal.
C6_Witness ==
    /\ Returned("twice_around_tree") /\ N >= 4
    /\ TriangleInequality(N, dist_matrix)
    /\ result.cost.v > OptCost(dist_matrix, N)

\* C7: under the triangle inequality, on n >= 2 cities, the cost
\* christofides returns is at most 1.5 times the least tour cost.
C7_ChristofidesWithin3Halves ==
    (Returned("christofides") /\ N >= 2
        /\ TriangleInequality(N, dist_matrix)) =>
        2 * result.cost.v <= 3 * OptCost(dist_matrix, N)

\* C7 witness: christofides returned a tour that is not optimal.
C7_Witness ==
    /\ Returned("christofides") /\ N >= 4
    /\ TriangleInequality(N, dist_matrix)
    /\ result.cost.v > OptCost(dist_matrix, N)

\* C8: a tuple popped with bound >= best_cost is dropped: nothing is pushed
\* for it and the incumbent stays as it was.
C8_PrunedNeverExpanded ==
    [][(pc = "pop" /\ hist'.pops = hist.pops + 1
            /\ heappop(pq).bound >= best_cost) =>
        /\ pc' = "loop"
        /\ pq' = pq \ {heappop(pq)}
        /\ best_cost' = best_cost /\ best_tour' = best_tour
        /\ hist'.pushes = hist.pushes /\ hist'.bounds = hist.bounds]_vars

\* C8 witness: a tuple, pushed when its bound was below the incumbent of
\* that time, was popped and pruned after the incumbent had improved.
C8_Witness ==
    /\ pc = "loop" /\ hist.lastPop = "pruned"
    /\ best_tour # None /\ cur.bound >= best_cost

\* C9 (as claimed): once the budget is exceeded nothing is popped and no
\* child is pushed.
C9_NothingAfterExpiry ==
    [][late => (hist'.pops = hist.pops /\ hist'.pushes = hist.pushes)]_vars

\* C9 (amended): every pop and every bound computation has a time check of
\* its own before it; a check that finds the budget exceeded ends the call
\* with nothing popped or pushed after it, so that at most one pop or one
\* bound computation (with its push), the one whose check had passed, takes
\* place after the budget is exceeded; a call whose first check finds the
\* budget exceeded pops nothing and returns "NA".
C9_PollingAborts ==
    /\ hist.lateOps <= 1
    /\ hist.pops + hist.bounds <= hist.checks
    /\ (pc = "timeout" /\ hist.checks = 1) =>
          (hist.pops = 0 /\ hist.pushes = 0 /\ result.cost = Str("NA"))

\* C9 witness: a child was pushed after the budget was exceeded, and the
\* next check ended the call.
C9_Witness ==
    pc = "timeout" /\ hist.lateOps = 1 /\ hist.pushes >= 1 /\ hist.checks > 1

\* C10: every tuple of the heap has a path from vertex 0 without repeats,
\* the set of that path's vertices as its visited set, and a bound that is
\* at least its cost so far.
C10_NodeInvariant ==
    \A node \in pq :
        /\ node.path[1] = 0
        /\ \A i, j \in 1 .. Len(node.path) : i # j => node.path[i] # node.path[j]
        /\ node.visited = Range(node.path)
        /\ node.bound >= node.cost

\* C10 witness: the heap holds a tuple of three vertices next to others.
C10_Witness ==
    \E node \in pq : Len(node.path) = 3 /\ node.bound > node.cost /\ Cardinality(pq) > 1

====
